---------------------------- MODULE Spec2Model ----------------------------
(***************************************************************************)
(* A model of api/samp-server.js: the SA-MP query codec                    *)
(* (createSampQueryPacket, parseSampResponse), the UDP exchange            *)
(* (queryRealSampServer), the mock generator (generateRealisticMockData)   *)
(* and the two HTTP handlers that compose them (GET /api/samp-server and   *)
(* POST /api/samp-servers).                                                *)
(*                                                                         *)
(* JavaScript values are represented as follows.                           *)
(*   - a string is a sequence of one-character strings, so that split,     *)
(*     parseInt and trim are computed and not assumed;                     *)
(*   - a string-or-undefined is a record [def, s];                         *)
(*   - a number is a record [nan, v] where NaN can arise (parseInt), and   *)
(*     an integer where it cannot;                                         *)
(*   - a Buffer is a sequence of bytes 0..255;                             *)
(*   - Math.random() is a value u in 0..999 standing for u/1000.           *)
(* Timestamps (Date.now, toISOString) and logging are not modelled.        *)
(***************************************************************************)
EXTENDS Integers, Sequences, FiniteSets, TLC

(***************************************************************************)
(* Bounds of the model.                                                    *)
(***************************************************************************)
\* the longest batch the model submits, apart from the over-long one
MaxBatchLen == 2
\* the most bytes that follow the language string in a response buffer
MaxTrail == 1
\* the longest truncated response buffer
MaxCut == 13

(***************************************************************************)
(* JavaScript primitives used by the source.                               *)
(***************************************************************************)
Undefined == [def |-> FALSE, s |-> <<>>]
Str(s) == [def |-> TRUE, s |-> s]

NaN == [nan |-> TRUE, v |-> 0]
Num(n) == [nan |-> FALSE, v |-> n]

Digits == <<"0", "1", "2", "3", "4", "5", "6", "7", "8", "9">>
IsDigit(c) == \E d \in 1..10 : Digits[d] = c
DigitVal(c) == (CHOOSE d \in 1..10 : Digits[d] = c) - 1

\* the white space String.prototype.trim and parseInt strip (ASCII part)
WhiteChars == {" "}
WhiteBytes == {9, 10, 11, 12, 13, 32}

Min(a, b) == IF a < b THEN a ELSE b
Max(a, b) == IF a > b THEN a ELSE b

\* JavaScript's % on integers: the result has the sign of the dividend
JsRem(a, n) == IF a >= 0 THEN a % n ELSE -((-a) % n)

\* The recursive helpers below are functions, not operators: a function is
\* applied to the value of its argument.
Chars == Seq(STRING)

SkipWhite[s \in Chars] ==
  IF s # <<>> /\ Head(s) \in WhiteChars THEN SkipWhite[Tail(s)] ELSE s

\* the value of the longest prefix of decimal digits of s, acc carrying the
\* value read so far
DigitPrefix[s \in Chars, acc \in Nat] ==
  IF s # <<>> /\ IsDigit(Head(s))
    THEN DigitPrefix[Tail(s), 10 * acc + DigitVal(Head(s))]
    ELSE acc

\* t is a string stripped of leading white space
ParseStripped[t \in Chars] ==
  LET neg == t # <<>> /\ Head(t) = "-"
      u == IF t # <<>> /\ Head(t) \in {"-", "+"} THEN Tail(t) ELSE t
  IN IF u = <<>> \/ ~IsDigit(Head(u))
       THEN NaN
       ELSE Num(IF neg THEN -DigitPrefix[u, 0] ELSE DigitPrefix[u, 0])

\* parseInt(s) for a string s without a 0x prefix: leading white space, an
\* optional sign, then the longest run of decimal digits; NaN without one
ParseIntStr(s) == ParseStripped[SkipWhite[s]]

\* parseInt(x) where x may be undefined: parseInt("undefined") is NaN
ParseInt(x) == IF x.def THEN ParseIntStr(x.s) ELSE NaN

\* s.split('.') : the pieces of s between the dots, cur carrying the piece
\* being read
SplitDots[s \in Chars, cur \in Chars] ==
  IF s = <<>> THEN <<cur>>
  ELSE IF Head(s) = "." THEN <<cur>> \o SplitDots[Tail(s), <<>>]
  ELSE SplitDots[Tail(s), Append(cur, Head(s))]

Split(s) == SplitDots[s, <<>>]

\* ipParts[i] for a 0-based index i: undefined past the end of the array
PartAt(parts, i) == IF i + 1 <= Len(parts) THEN Str(parts[i + 1]) ELSE Undefined

\* a + b on numbers that may be NaN
JsAdd(a, b) == IF a.nan \/ b.nan THEN NaN ELSE Num(a.v + b.v)

(***************************************************************************)
(* createSampQueryPacket(ip, port): the 11-byte query packet, or the       *)
(* exception the Buffer writes raise.  ip is a string-or-undefined, port   *)
(* an integer.  writeUInt8 and writeUInt16LE throw a RangeError for a      *)
(* value outside the field's range and store NaN as 0; ip.split throws a   *)
(* TypeError when ip is undefined.                                         *)
(***************************************************************************)
MagicSAMP == <<83, 65, 77, 80>>
QueryTypeInfo == 105

\* a 16-bit write that stores the high byte first
writeUInt16BE(value) == <<value \div 256, value % 256>>

\* the two bytes packet.writeUInt16LE(value, 8) stores
writeUInt16LE(value) == <<value % 256, value \div 256>>

OctetByte(p) == IF p.nan THEN 0 ELSE p.v
OctetInRange(p) == p.nan \/ (p.v >= 0 /\ p.v <= 255)

createSampQueryPacket(ip, port) ==
  IF ~ip.def THEN [ok |-> FALSE, err |-> "TypeError", packet |-> <<>>]
  ELSE
    LET ipParts == Split(ip.s)
        oct == [i \in 0..3 |-> ParseInt(PartAt(ipParts, i))]
    IN IF \E i \in 0..3 : ~OctetInRange(oct[i])
         THEN [ok |-> FALSE, err |-> "RangeError", packet |-> <<>>]
       ELSE IF port < 0 \/ port > 65535
         THEN [ok |-> FALSE, err |-> "RangeError", packet |-> <<>>]
       ELSE [ok |-> TRUE, err |-> "",
             packet |-> MagicSAMP
                        \o <<OctetByte(oct[0]), OctetByte(oct[1]),
                             OctetByte(oct[2]), OctetByte(oct[3])>>
                        \o writeUInt16LE(port)
                        \o <<QueryTypeInfo>>]

(***************************************************************************)
(* parseSampResponse(buffer, ip, port).  readUInt8/16LE/32LE throw a       *)
(* RangeError when the field does not lie inside the buffer;               *)
(* buffer.toString(enc, start, end) clamps start and end to the buffer and *)
(* never throws.  The payload bytes of the model are ASCII, for which      *)
(* UTF-8 decoding maps each byte to the character of the same code.        *)
(***************************************************************************)
CanRead(buffer, offset, n) == offset + n <= Len(buffer)

readUInt8(buffer, offset) == buffer[offset + 1]
\* a 16-bit read that takes the first byte as the high one
readUInt16BE(buffer, offset) == 256 * buffer[offset + 1] + buffer[offset + 2]

readUInt16LE(buffer, offset) == buffer[offset + 1] + 256 * buffer[offset + 2]
readUInt32LE(buffer, offset) ==
  buffer[offset + 1] + 256 * buffer[offset + 2]
  + 65536 * buffer[offset + 3] + 16777216 * buffer[offset + 4]

\* a slice that ignores its end and runs to the end of the buffer
toStringRest(buffer, start, end) ==
  IF start >= Len(buffer) THEN <<>> ELSE SubSeq(buffer, start + 1, Len(buffer))

\* buffer.toString('utf-8', start, end)
toString(buffer, start, end) ==
  LET e == Min(end, Len(buffer))
  IN IF start >= e THEN <<>> ELSE SubSeq(buffer, start + 1, e)

TrimLeft[s \in Seq(Nat)] ==
  IF s # <<>> /\ Head(s) \in WhiteBytes THEN TrimLeft[Tail(s)] ELSE s

TrimRight[s \in Seq(Nat)] ==
  IF s # <<>> /\ s[Len(s)] \in WhiteBytes
    THEN TrimRight[SubSeq(s, 1, Len(s) - 1)]
    ELSE s

\* String.prototype.trim
trim(s) == TrimRight[TrimLeft[s]]

MinResponseLen == 11

NoRecord == [online |-> FALSE]

ParseFail(err, reads) ==
  [ok |-> FALSE, err |-> err, reads |-> reads, record |-> NoRecord]

\* reads counts the buffer reads performed before the function returned or
\* threw
parseSampResponse(buffer, ip, port) ==
  IF Len(buffer) < MinResponseLen THEN ParseFail("TooShort", 0)
  ELSE
    LET password == readUInt8(buffer, 4) = 1
        players == readUInt16LE(buffer, 5)
        maxPlayers == readUInt16LE(buffer, 7)
        hOff == 9
    IN IF ~CanRead(buffer, hOff, 4) THEN ParseFail("RangeError", 3)
       ELSE
    LET hostnameLength == readUInt32LE(buffer, hOff)
        hostname == toString(buffer, hOff + 4, hOff + 4 + hostnameLength)
        gOff == hOff + 4 + hostnameLength
    IN IF ~CanRead(buffer, gOff, 4) THEN ParseFail("RangeError", 5)
       ELSE
    LET gamemodeLength == readUInt32LE(buffer, gOff)
        gamemode == toString(buffer, gOff + 4, gOff + 4 + gamemodeLength)
        lOff == gOff + 4 + gamemodeLength
    IN IF ~CanRead(buffer, lOff, 4) THEN ParseFail("RangeError", 7)
       ELSE
    LET languageLength == readUInt32LE(buffer, lOff)
        language == toString(buffer, lOff + 4, lOff + 4 + languageLength)
    IN [ok |-> TRUE, err |-> "", reads |-> 9,
        record |-> [online |-> TRUE,
                    password |-> password,
                    players |-> players,
                    maxPlayers |-> maxPlayers,
                    hostname |-> trim(hostname),
                    gamemode |-> trim(gamemode),
                    language |-> trim(language),
                    ip |-> ip,
                    port |-> port,
                    version |-> "SA-MP 0.3.7"]]

(***************************************************************************)
(* generateRealisticMockData(ip, port).  rnd[k] is the value of the k-th   *)
(* call of Math.random() made by the invocation.  Accessing a field of the *)
(* undefined template (NaN or negative index) and ip.split on an undefined *)
(* ip throw a TypeError.  Non-ASCII template text is transliterated.       *)
(***************************************************************************)
serverTemplates ==
  << [name |-> "Los Santos Roleplay | LSRP.NET",
      gamemode |-> "Strict Roleplay v3.1",
      language |-> "English",
      description |-> "The largest English SA-MP roleplay server with advanced systems.",
      tags |-> <<"Roleplay", "English", "Advanced">>,
      averagePlayers |-> 450],
     [name |-> "Next Generation Gaming | NGG-RP",
      gamemode |-> "NG:RP v5.0",
      language |-> "English",
      description |-> "Next Generation Gaming roleplay server with unique features.",
      tags |-> <<"Roleplay", "English", "Innovative">>,
      averagePlayers |-> 320],
     [name |-> "Cops and Robbers | Classic",
      gamemode |-> "CNR v2.5",
      language |-> "English",
      description |-> "Classic Cops and Robbers gameplay with team-based action.",
      tags |-> <<"Action", "Teamplay", "Classic">>,
      averagePlayers |-> 180],
     [name |-> "Russian Roleplay | Rossiya RP",
      gamemode |-> "Russian Roleplay v4.2",
      language |-> "Russian",
      description |-> "Krupneyshiy russkiy rolevoy server SA-MP.",
      tags |-> <<"Roleplay", "Russian", "Large">>,
      averagePlayers |-> 280],
     [name |-> "Freeroam & Stunts | [FS]",
      gamemode |-> "Freeroam v1.8",
      language |-> "English",
      description |-> "Freeroam with stunts, races and custom vehicles.",
      tags |-> <<"Freeroam", "Stunts", "Racing">>,
      averagePlayers |-> 120] >>

playerNames ==
  << "John_Doe", "Mike_Johnson", "Carl_Johnson", "Franklin_C", "Trevor_P",
     "Lamar_D", "Michael_DS", "Simeon_Y", "Lester_C", "Amanda_DS",
     "Jimmy_DS", "Dave_N", "Steve_H", "Floyd_H", "Andreas_S",
     "Big_Smoke", "Ryder", "Sweet", "Tenpenny", "Woozie" >>

MinMockPlayers == 10
MaxMockPlayers == 1000
MaxShownPlayers == 25
\* the largest number of Math.random() calls of one invocation
MaxDraws == 4 + 2 * MaxShownPlayers

\* the numbers of the model: NaN and the integers
JsNumbers == [nan : BOOLEAN, v : Int]

\* ip.split('.').reduce((a, b) => a + parseInt(b), 0)
SumParts[parts \in Seq(Chars), acc \in JsNumbers] ==
  IF parts = <<>> THEN acc
  ELSE SumParts[Tail(parts), JsAdd(acc, ParseIntStr(Head(parts)))]

\* a hash that leaves the port out
MockHashNoPort(ip, port) == SumParts[Split(ip.s), Num(0)]

MockHash(ip, port) == JsAdd(SumParts[Split(ip.s), Num(0)], Num(port))

\* playerNames[nameIndex], the string "undefined" when the index is negative
PlayerNameAt(nameIndex) ==
  IF nameIndex >= 0 THEN playerNames[nameIndex + 1] ELSE "undefined"

\* the i-th element pushed on playersList (i counts from 0); a name is the
\* pool name and the numeric suffix appended to it (0: no suffix)
\* a player whose id is the 0-based loop index
MockPlayerZeroBased(hash, i, rnd) ==
  [id |-> i,
   name |-> [base |-> PlayerNameAt(JsRem(hash + i, Len(playerNames))),
             suffix |-> IF i > 0 THEN JsRem(hash + i, 899) + 100 ELSE 0],
   score |-> (rnd[3 + 2 * i] * 50000) \div 1000,
   ping |-> (rnd[4 + 2 * i] * 200) \div 1000 + 20]

MockPlayer(hash, i, rnd) ==
  [id |-> i + 1,
   name |-> [base |-> PlayerNameAt(JsRem(hash + i, Len(playerNames))),
             suffix |-> IF i > 0 THEN JsRem(hash + i, 899) + 100 ELSE 0],
   score |-> (rnd[3 + 2 * i] * 50000) \div 1000,
   ping |-> (rnd[4 + 2 * i] * 200) \div 1000 + 20]

MockThrow == [ok |-> FALSE, err |-> "TypeError", record |-> NoRecord]

\* the function body from the template selection on, hash being the value
\* of the const hash
MockFromHash(hash, ip, port, rnd) ==
  IF hash.nan THEN MockThrow
  ELSE
    LET templateIndex == JsRem(hash.v, Len(serverTemplates))
    IN IF templateIndex < 0 THEN MockThrow
       ELSE
    LET template == serverTemplates[templateIndex + 1]
        basePlayers == template.averagePlayers
        players == Max(MinMockPlayers,
                       Min(MaxMockPlayers,
                           basePlayers + (rnd[1] * 100) \div 1000 - 50))
        showPlayers == Min(players, MaxShownPlayers)
    IN [ok |-> TRUE, err |-> "",
        record |-> [online |-> TRUE,
                    password |-> rnd[3 + 2 * showPlayers] > 800,
                    players |-> players,
                    maxPlayers |-> MaxMockPlayers,
                    hostname |-> template.name,
                    gamemode |-> template.gamemode,
                    language |-> template.language,
                    description |-> template.description,
                    mapname |-> "San Andreas",
                    version |-> "SA-MP 0.3.7",
                    website |-> "https://example-samp.com",
                    playersList |-> [i \in 1..showPlayers |->
                                       MockPlayer(hash.v, i - 1, rnd)],
                    ip |-> ip,
                    port |-> port,
                    ping |-> (rnd[2] * 150) \div 1000 + 30,
                    tags |-> template.tags,
                    restartHoursAgo |-> (rnd[4 + 2 * showPlayers] * 72) \div 1000]]

\* ip.split throws on an undefined ip; the hash is computed once
generateRealisticMockData(ip, port, rnd) ==
  IF ~ip.def THEN MockThrow
  ELSE CHOOSE mock \in {MockFromHash(hash, ip, port, rnd) :
                          hash \in {MockHash(ip, port)}} : TRUE

(***************************************************************************)
(* queryRealSampServer(ip, port): one exchange.  An exchange record holds  *)
(* the socket, the timer and the promise the invocation creates:           *)
(*   sock     "open" from dgram.createSocket until client.close()          *)
(*   closes   the number of client.close() calls made on the socket        *)
(*   timer    "unset", "pending" (setTimeout), "cleared" (clearTimeout)    *)
(*            or "fired"                                                   *)
(*   sent     the number of client.send() calls that dispatched a packet   *)
(*   sendCb   "none", "pending" or "called": the callback given to send    *)
(*   promise  "pending", "resolved" or "rejected"; the first resolve or    *)
(*            reject settles it and later ones have no effect              *)
(*   reason   the kind of Error the promise was rejected with              *)
(*   value    the record the promise was resolved with                     *)
(*   msg      the datagram the message handler received (history)          *)
(*   log      the callbacks that ran, in order, the successful completion  *)
(*            of send() apart: "timeout", "message", "error", "senderror"  *)
(*            (history)                                                    *)
(*   uncaught an exception left a socket or timer callback: close() on a   *)
(*            socket that is already closed throws                         *)
(*            ERR_SOCKET_DGRAM_NOT_RUNNING                                 *)
(***************************************************************************)
TimeoutMs == 5000

\* an exception thrown inside the promise executor rejects the promise
ExecutorThrow(e, err) == [e EXCEPT !.promise = "rejected", !.reason = err]

\* dgram's send() validates the destination port before it binds or sends:
\* it throws ERR_SOCKET_BAD_PORT for port 0
SendThrows(port) == port = 0

queryRealSampServer(ip, port) ==
  LET client == [ip |-> ip, port |-> port, sock |-> "open", closes |-> 0,
                 timer |-> "unset", packet |-> <<>>, sent |-> 0,
                 sendCb |-> "none", promise |-> "pending", reason |-> "",
                 value |-> NoRecord, msg |-> <<>>, log |-> <<>>,
                 uncaught |-> FALSE]
      queryPacket == createSampQueryPacket(ip, port)
  IN IF ~queryPacket.ok THEN ExecutorThrow(client, queryPacket.err)
     ELSE
       LET armed == [client EXCEPT !.timer = "pending",
                                   !.packet = queryPacket.packet]
       IN IF SendThrows(port) THEN ExecutorThrow(armed, "BadPort")
          ELSE [armed EXCEPT !.sent = @ + 1, !.sendCb = "pending"]

clearTimeout(e) ==
  [e EXCEPT !.timer = IF @ = "pending" THEN "cleared" ELSE @]

CloseThrows(e) == e.sock # "open"

\* client.close()
Close(e) ==
  IF CloseThrows(e)
    THEN [e EXCEPT !.closes = @ + 1, !.uncaught = TRUE]
    ELSE [e EXCEPT !.closes = @ + 1, !.sock = "closed"]

resolve(e, v) ==
  IF e.promise = "pending"
    THEN [e EXCEPT !.promise = "resolved", !.value = v]
    ELSE e

\* a reject that replaces an outcome already reported
rejectOverwrite(e, reason) == [e EXCEPT !.promise = "rejected", !.reason = reason]

reject(e, reason) ==
  IF e.promise = "pending"
    THEN [e EXCEPT !.promise = "rejected", !.reason = reason]
    ELSE e

\* a timeout callback that reports the timeout and leaves the socket open
timeoutCallbackLeak(e) ==
  reject([e EXCEPT !.timer = "fired", !.log = Append(@, "timeout")], "Timeout")

\* the setTimeout callback
timeoutCallback(e) ==
  LET t == [e EXCEPT !.timer = "fired", !.log = Append(@, "timeout")]
  IN IF CloseThrows(t) THEN Close(t)
     ELSE reject(Close(t), "Timeout")

\* a message handler that parses outside any try block: the exception of
\* parseSampResponse leaves the handler and the promise stays pending
onMessageNoCatch(e, message) ==
  LET c == [clearTimeout(e) EXCEPT !.msg = message,
                                   !.log = Append(@, "message")]
  IN IF CloseThrows(c) THEN Close(c)
     ELSE LET serverInfo == parseSampResponse(message, e.ip, e.port)
          IN IF serverInfo.ok
               THEN resolve(Close(c), serverInfo.record)
               ELSE [Close(c) EXCEPT !.uncaught = TRUE]

\* client.on('message', ...)
onMessage(e, message) ==
  LET c == [clearTimeout(e) EXCEPT !.msg = message,
                                   !.log = Append(@, "message")]
  IN IF CloseThrows(c) THEN Close(c)
     ELSE LET serverInfo == parseSampResponse(message, e.ip, e.port)
          IN IF serverInfo.ok
               THEN resolve(Close(c), serverInfo.record)
               ELSE reject(Close(c), "ParseFailed")

\* client.on('error', ...)
onError(e) ==
  LET c == [clearTimeout(e) EXCEPT !.log = Append(@, "error")]
  IN IF CloseThrows(c) THEN Close(c)
     ELSE reject(Close(c), "NetworkError")

\* a send callback that sends the packet again when the send failed
sendCallbackRetry(e, error) ==
  LET d == [e EXCEPT !.sendCb = "called"]
  IN IF ~error \/ CloseThrows(d) THEN d
     ELSE [d EXCEPT !.sent = @ + 1, !.sendCb = "pending",
                    !.log = Append(@, "senderror")]

\* the callback given to client.send; error tells whether send failed
sendCallback(e, error) ==
  LET d == [e EXCEPT !.sendCb = "called"]
  IN IF ~error THEN d
     ELSE LET c == [clearTimeout(d) EXCEPT !.log = Append(@, "senderror")]
          IN IF CloseThrows(c) THEN Close(c)
             ELSE reject(Close(c), "SendFailed")

(***************************************************************************)
(* The inputs of the model: request parameters, batch bodies, datagrams    *)
(* and random draws.                                                       *)
(***************************************************************************)
\* "1.2.3.4" and "10.0.0.255": valid addresses
IpA == <<"1", ".", "2", ".", "3", ".", "4">>
IpB == <<"1", "0", ".", "0", ".", "0", ".", "2", "5", "5">>
\* "1.2.3": three octets only
IpShort == <<"1", ".", "2", ".", "3">>
\* "256.1.1.1": an octet above 255
IpBig == <<"2", "5", "6", ".", "1", ".", "1", ".", "1">>
\* "a.b": no octet is a number
IpName == <<"a", ".", "b">>

QueryIps == {Str(IpA), Str(IpShort), Str(IpBig), Str(IpName), Undefined}
QueryPorts == {Str(<<"7", "7", "7", "7">>), Str(<<"6", "5", "5", "3", "6">>),
               Str(<<"0">>), Str(<<"p">>), Undefined}

TargetA == [ip |-> Str(IpA), port |-> 7777]
TargetB == [ip |-> Str(IpB), port |-> 7778]
Targets == {TargetA, TargetB,
            [ip |-> Str(IpA), port |-> 0],
            [ip |-> Undefined, port |-> 7777]}

RECURSIVE SeqsUpTo(_, _)
SeqsUpTo(S, n) ==
  IF n = 0 THEN {<<>>}
  ELSE LET shorter == SeqsUpTo(S, n - 1)
       IN shorter \cup {Append(q, x) : q \in {t \in shorter : Len(t) = n - 1}, x \in S}

\* the limit of POST /api/samp-servers
MaxServers == 5

OverLong == [i \in 1..(MaxServers + 1) |-> TargetA]

Bodies == {[isArray |-> FALSE, servers |-> <<>>]}
          \cup {[isArray |-> TRUE, servers |-> q] :
                  q \in SeqsUpTo(Targets, MaxBatchLen) \cup {OverLong}}

LE16(n) == <<n % 256, n \div 256>>
LE32(n) == <<n % 256, (n \div 256) % 256, (n \div 65536) % 256, n \div 16777216>>

\* an info response as a server lays it out; a length prefix may differ
\* from the length of the string that follows it
InfoResponse(pw, players, maxPlayers, hLen, host, gLen, gm, lLen, lang) ==
  MagicSAMP \o <<pw>> \o LE16(players) \o LE16(maxPlayers)
  \o LE32(hLen) \o host \o LE32(gLen) \o gm \o LE32(lLen) \o lang

\* players 42, maxPlayers 100, hostname " A ", gamemode "DM", language "EN"
MsgGood == InfoResponse(0, 42, 100, 3, <<32, 65, 32>>, 2, <<68, 77>>, 2, <<69, 78>>)
\* six bytes
MsgShort == MagicSAMP \o <<0, 1>>
\* the hostname prefix announces 100 bytes, 3 follow
MsgBadHost == InfoResponse(0, 42, 100, 100, <<32, 65, 32>>, 0, <<>>, 0, <<>>)
\* the language prefix announces 5 bytes, 2 follow
MsgBadLang == InfoResponse(1, 42, 100, 1, <<65>>, 2, <<68, 77>>, 5, <<69, 78>>)

\* the datagrams the exchanges of the handlers receive
Datagrams == {MsgGood, MsgShort, MsgBadHost, MsgBadLang}
\* one datagram that decodes and one that does not
CoreDatagrams == {MsgGood, MsgShort}

\* the values Math.random() returns in the model, in thousandths
Jitter == {0, 999}
RandomSources == {[k \in 1..MaxDraws |-> u] : u \in Jitter}

(***************************************************************************)
(* The state: the requests being served and the exchanges they started.    *)
(***************************************************************************)
VARIABLES
  reqs,   \* reqs[r]: the request in slot r
  exch,   \* exch[r]: the exchanges request r started, oldest first
  buf,    \* the response buffer under decode (codec specification)
  dec,    \* what parseSampResponse made of buf, NoDecode before the call
  target, \* the (ip, port) given to the functions called on their own
  packet, \* what createSampQueryPacket made of target, NoPacket before the call
  mocks   \* what the calls of generateRealisticMockData made of target, in order

vars == <<reqs, exch, buf, dec, target, packet, mocks>>
codecVars == <<buf, dec>>
unitVars == <<target, packet, mocks>>

\* the request slots of a run: one request is served
Reqs == {1}

NoResponse == [status |-> 0]

IdleRequest ==
  [kind |-> "none", pc |-> "idle", ip |-> Undefined, port |-> Undefined,
   portNum |-> 0, servers |-> <<>>, i |-> 0, results |-> <<>>,
   res |-> NoResponse, nres |-> 0]

NoDecode == [ok |-> FALSE, err |-> "NotCalled", reads |-> 0, record |-> NoRecord]

NoTarget == [ip |-> Undefined, port |-> 0]
NoPacket == [ok |-> FALSE, err |-> "NotCalled", packet |-> <<>>]

Init ==
  /\ reqs = [r \in Reqs |-> IdleRequest]
  /\ exch = [r \in Reqs |-> <<>>]
  /\ buf = <<>>
  /\ dec = NoDecode
  /\ target = NoTarget
  /\ packet = NoPacket
  /\ mocks = <<>>

\* res.status(...).json(...) / res.json(...)
Respond(q, response) ==
  [q EXCEPT !.pc = "done", !.res = response, !.nres = @ + 1]

\* !x for a string-or-undefined
Falsy(x) == ~x.def \/ x.s = <<>>

Current(r) == exch[r][Len(exch[r])]

(***************************************************************************)
(* GET /api/samp-server, up to the await.                                  *)
(***************************************************************************)
GetRequest(r, ip, port) ==
  /\ reqs[r].pc = "idle"
  /\ UNCHANGED <<codecVars, unitVars>>
  /\ LET q == [reqs[r] EXCEPT !.kind = "get", !.ip = ip, !.port = port]
         portNum == ParseInt(port)
     IN IF Falsy(ip) \/ Falsy(port)
          THEN /\ reqs' = [reqs EXCEPT ![r] =
                    Respond(q, [status |-> 400, code |-> "MISSING_PARAMS"])]
               /\ UNCHANGED exch
        ELSE IF portNum.nan \/ portNum.v < 1 \/ portNum.v > 65535
          THEN /\ reqs' = [reqs EXCEPT ![r] =
                    Respond(q, [status |-> 400, code |-> "INVALID_PORT"])]
               /\ UNCHANGED exch
        ELSE /\ reqs' = [reqs EXCEPT ![r] =
                    [q EXCEPT !.pc = "await", !.portNum = portNum.v]]
             /\ exch' = [exch EXCEPT ![r] =
                    Append(@, queryRealSampServer(ip, portNum.v))]

\* a handler whose catch block answers 500 with the error instead of
\* falling back to generated data
GetResumeNoFallback(r, rnd) ==
  /\ reqs[r].pc = "await"
  /\ reqs[r].kind = "get"
  /\ Current(r).promise # "pending"
  /\ UNCHANGED <<codecVars, unitVars>>
  /\ LET q == reqs[r]
         e == Current(r)
     IN reqs' = [reqs EXCEPT ![r] =
          IF e.promise = "resolved"
            THEN Respond(q, [status |-> 200, success |-> TRUE,
                             data |-> e.value, source |-> "real",
                             error |-> ""])
          ELSE Respond(q, [status |-> 500, success |-> FALSE,
                           data |-> NoRecord, source |-> "",
                           error |-> e.reason])]
  /\ UNCHANGED exch

\* a handler whose catch block tags the generated data as real
GetResumeMislabel(r, rnd) ==
  /\ reqs[r].pc = "await"
  /\ reqs[r].kind = "get"
  /\ Current(r).promise # "pending"
  /\ UNCHANGED <<codecVars, unitVars>>
  /\ LET q == reqs[r]
         e == Current(r)
         mockData == generateRealisticMockData(q.ip, q.portNum, rnd)
     IN reqs' = [reqs EXCEPT ![r] =
          IF e.promise = "resolved"
            THEN Respond(q, [status |-> 200, success |-> TRUE,
                             data |-> e.value, source |-> "real",
                             error |-> ""])
          ELSE IF ~mockData.ok
            THEN [q EXCEPT !.pc = "unhandled"]
          ELSE Respond(q, [status |-> 200, success |-> TRUE,
                           data |-> mockData.record, source |-> "real",
                           error |-> e.reason])]
  /\ UNCHANGED exch

(***************************************************************************)
(* GET /api/samp-server, from the await on: the try and the catch block.   *)
(* An exception thrown in the catch block rejects the handler's promise;   *)
(* no response is sent by the handler (pc = "unhandled").                  *)
(***************************************************************************)
GetResume(r, rnd) ==
  /\ reqs[r].pc = "await"
  /\ reqs[r].kind = "get"
  /\ Current(r).promise # "pending"
  /\ UNCHANGED <<codecVars, unitVars>>
  /\ LET q == reqs[r]
         e == Current(r)
         mockData == generateRealisticMockData(q.ip, q.portNum, rnd)
     IN reqs' = [reqs EXCEPT ![r] =
          IF e.promise = "resolved"
            THEN Respond(q, [status |-> 200, success |-> TRUE,
                             data |-> e.value, source |-> "real",
                             error |-> ""])
          ELSE IF ~mockData.ok
            THEN [q EXCEPT !.pc = "unhandled"]
          ELSE Respond(q, [status |-> 200, success |-> TRUE,
                           data |-> mockData.record, source |-> "mock",
                           error |-> e.reason])]
  /\ UNCHANGED exch

(***************************************************************************)
(* POST /api/samp-servers, up to the first await.                          *)
(***************************************************************************)
BatchResponse(results) ==
  [status |-> 200, success |-> TRUE, results |-> results,
   total |-> Len(results)]

PostRequest(r, body) ==
  /\ reqs[r].pc = "idle"
  /\ UNCHANGED <<codecVars, unitVars>>
  /\ LET servers == body.servers
         q == [reqs[r] EXCEPT !.kind = "post", !.servers = servers]
     IN IF ~body.isArray
          THEN /\ reqs' = [reqs EXCEPT ![r] =
                    Respond(q, [status |-> 400, code |-> "NOT_ARRAY"])]
               /\ UNCHANGED exch
        ELSE IF Len(servers) > MaxServers
          THEN /\ reqs' = [reqs EXCEPT ![r] =
                    Respond(q, [status |-> 400, code |-> "TOO_MANY",
                                received |-> Len(servers)])]
               /\ UNCHANGED exch
        ELSE IF servers = <<>>
          THEN /\ reqs' = [reqs EXCEPT ![r] = Respond(q, BatchResponse(<<>>))]
               /\ UNCHANGED exch
        ELSE /\ reqs' = [reqs EXCEPT ![r] = [q EXCEPT !.pc = "await", !.i = 1]]
             /\ exch' = [exch EXCEPT ![r] =
                    Append(@, queryRealSampServer(servers[1].ip, servers[1].port))]

(***************************************************************************)
(* POST /api/samp-servers, from an await on: the rest of the iteration,    *)
(* then either the next iteration up to its await or the response.         *)
(***************************************************************************)
\* what the iteration pushes on results; metaSource is metadata.source, ""
\* when the element has no metadata
RealItem(server, data) ==
  [success |-> TRUE, data |-> data, query |-> server, metaSource |-> ""]

MockItem(server, mockData) ==
  [success |-> TRUE, data |-> mockData, query |-> server, metaSource |-> "mock"]

\* a push that puts the element in front of the others
PushFront(results, item) == <<item>> \o results

\* results.push(item)
PushResult(results, item) == Append(results, item)

PostResume(r, rnd) ==
  /\ reqs[r].pc = "await"
  /\ reqs[r].kind = "post"
  /\ Current(r).promise # "pending"
  /\ UNCHANGED <<codecVars, unitVars>>
  /\ LET q == reqs[r]
         e == Current(r)
         server == q.servers[q.i]
         mockData == generateRealisticMockData(server.ip, server.port, rnd)
         item == IF e.promise = "resolved"
                   THEN RealItem(server, e.value)
                   ELSE MockItem(server, mockData.record)
         results == PushResult(q.results, item)
     IN IF e.promise = "rejected" /\ ~mockData.ok
          THEN /\ reqs' = [reqs EXCEPT ![r] = [q EXCEPT !.pc = "unhandled"]]
               /\ UNCHANGED exch
        ELSE IF q.i < Len(q.servers)
          THEN /\ reqs' = [reqs EXCEPT ![r] =
                    [q EXCEPT !.results = results, !.i = @ + 1]]
               /\ exch' = [exch EXCEPT ![r] =
                    Append(@, queryRealSampServer(q.servers[q.i + 1].ip,
                                                  q.servers[q.i + 1].port))]
        ELSE /\ reqs' = [reqs EXCEPT ![r] =
                    Respond([q EXCEPT !.results = results],
                            BatchResponse(results))]
             /\ UNCHANGED exch

(***************************************************************************)
(* The events of an exchange k of request r.  The timer fires while it is  *)
(* pending.  The socket delivers 'message' and 'error' events while it is  *)
(* open and send() has bound it.  The callback given to send() is called   *)
(* once, with or without an error; a send still pending when the socket    *)
(* is closed is cancelled, and its callback is then called with an error   *)
(* on the closed socket.                                                   *)
(***************************************************************************)
\* a timer kept in one variable shared by all exchanges: when it fires, the
\* callback runs on every exchange whose timer is pending
TimeoutShared(r, k) ==
  /\ k \in 1..Len(exch[r])
  /\ exch[r][k].timer = "pending"
  /\ exch' = [q \in DOMAIN exch |->
               [j \in 1..Len(exch[q]) |->
                  IF exch[q][j].timer = "pending"
                    THEN timeoutCallback(exch[q][j])
                    ELSE exch[q][j]]]
  /\ UNCHANGED <<reqs, codecVars, unitVars>>

Timeout(r, k) ==
  /\ k \in 1..Len(exch[r])
  /\ exch[r][k].timer = "pending"
  /\ exch' = [exch EXCEPT ![r][k] = timeoutCallback(@)]
  /\ UNCHANGED <<reqs, codecVars, unitVars>>

Receiving(e) == e.sock = "open" /\ e.sent > 0

Message(r, k, message) ==
  /\ k \in 1..Len(exch[r])
  /\ Receiving(exch[r][k])
  /\ exch' = [exch EXCEPT ![r][k] = onMessage(@, message)]
  /\ UNCHANGED <<reqs, codecVars, unitVars>>

SocketError(r, k) ==
  /\ k \in 1..Len(exch[r])
  /\ Receiving(exch[r][k])
  /\ exch' = [exch EXCEPT ![r][k] = onError(@)]
  /\ UNCHANGED <<reqs, codecVars, unitVars>>

SendDone(r, k, error) ==
  /\ k \in 1..Len(exch[r])
  /\ exch[r][k].sendCb = "pending"
  /\ exch' = [exch EXCEPT ![r][k] = sendCallback(@, error)]
  /\ UNCHANGED <<reqs, codecVars, unitVars>>

\* a request starts at most MaxServers exchanges
Exchanges == 1..MaxServers

Next ==
  \/ \E r \in Reqs, ip \in QueryIps, port \in QueryPorts : GetRequest(r, ip, port)
  \/ \E r \in Reqs, rnd \in RandomSources : GetResume(r, rnd)
  \/ \E r \in Reqs, body \in Bodies : PostRequest(r, body)
  \/ \E r \in Reqs, rnd \in RandomSources : PostResume(r, rnd)
  \/ \E r \in Reqs, k \in Exchanges : Timeout(r, k)
  \/ \E r \in Reqs, k \in Exchanges, message \in CoreDatagrams : Message(r, k, message)
  \/ \E r \in Reqs, k \in Exchanges : SocketError(r, k)
  \/ \E r \in Reqs, k \in Exchanges, error \in BOOLEAN : SendDone(r, k, error)

Spec == Init /\ [][Next]_vars

(***************************************************************************)
(* The same system under the scheduling Node guarantees: a timer that is   *)
(* not cleared fires, and the continuation of an await runs once the       *)
(* awaited promise is settled.  Datagrams, socket errors and the send      *)
(* callback come from the network and the kernel: nothing forces them.     *)
(***************************************************************************)
Fairness ==
  /\ \A r \in Reqs, k \in Exchanges : WF_vars(Timeout(r, k))
  /\ \A r \in Reqs : WF_vars(\E rnd \in RandomSources : GetResume(r, rnd))
  /\ \A r \in Reqs : WF_vars(\E rnd \in RandomSources : PostResume(r, rnd))

FairSpec == Init /\ [][Next]_vars /\ Fairness

(***************************************************************************)
(* The single-target operation on its own, under the same scheduling: GET  *)
(* requests and the events of their exchanges.                             *)
(***************************************************************************)
QueryNext ==
  \/ \E r \in Reqs, ip \in QueryIps, port \in QueryPorts : GetRequest(r, ip, port)
  \/ \E r \in Reqs, rnd \in RandomSources : GetResume(r, rnd)
  \/ \E r \in Reqs, k \in Exchanges : Timeout(r, k)
  \/ \E r \in Reqs, k \in Exchanges, message \in Datagrams : Message(r, k, message)
  \/ \E r \in Reqs, k \in Exchanges : SocketError(r, k)
  \/ \E r \in Reqs, k \in Exchanges, error \in BOOLEAN : SendDone(r, k, error)

QuerySpec == Init /\ [][QueryNext]_vars /\ Fairness

(***************************************************************************)
(* Requests served concurrently: two request slots, each a GET for         *)
(* 1.2.3.4:7777 or a batch of two targets, their handlers and the events of *)
(* their exchanges interleaved in every order.                             *)
(***************************************************************************)
ConcReqs == {1, 2}
ConcBodies == {[isArray |-> TRUE, servers |-> <<TargetB, TargetA>>]}
ConcRandom == {[k \in 1..MaxDraws |-> 0]}

ConcInit ==
  /\ reqs = [r \in ConcReqs |-> IdleRequest]
  /\ exch = [r \in ConcReqs |-> <<>>]
  /\ buf = <<>>
  /\ dec = NoDecode
  /\ target = NoTarget
  /\ packet = NoPacket
  /\ mocks = <<>>

ConcNext ==
  \/ \E r \in ConcReqs : GetRequest(r, Str(IpA), Str(<<"7", "7", "7", "7">>))
  \/ \E r \in ConcReqs, rnd \in ConcRandom : GetResume(r, rnd)
  \/ \E r \in ConcReqs, body \in ConcBodies : PostRequest(r, body)
  \/ \E r \in ConcReqs, rnd \in ConcRandom : PostResume(r, rnd)
  \/ \E r \in ConcReqs, k \in Exchanges : Timeout(r, k)
  \/ \E r \in ConcReqs, k \in Exchanges, message \in CoreDatagrams : Message(r, k, message)
  \/ \E r \in ConcReqs, k \in Exchanges : SocketError(r, k)
  \/ \E r \in ConcReqs, k \in Exchanges, error \in BOOLEAN : SendDone(r, k, error)

ConcSpec == ConcInit /\ [][ConcNext]_vars

(***************************************************************************)
(* The codec on its own: parseSampResponse applied to a response buffer    *)
(* drawn from a bounded set, directly (Decode) and as the datagram that    *)
(* an exchange of GET /api/samp-server?ip=1.2.3.4&port=7777 receives       *)
(* (CodecQuery, CodecDeliver).  The buffers are info responses whose       *)
(* length prefixes agree with their strings or overrun them, with and      *)
(* without trailing bytes, and the truncations of such buffers.            *)
(***************************************************************************)
StrPool == {<<>>, <<65>>, <<32, 65, 32>>}
\* by how much a length prefix exceeds the length of its string; every byte
\* of a buffer is below 128, so that each 32-bit length is below 2^31
Excess == {0, 1, 100}
Fields == {[len |-> Len(str) + x, str |-> str] : str \in StrPool, x \in Excess}
Trails == {[i \in 1..n |-> 70 + i] : n \in 0..MaxTrail}

FullBuffers ==
  {InfoResponse(pw, players, 100, h.len, h.str, g.len, g.str, l.len, l.str) \o t :
     pw \in {0, 1}, players \in {42, 300}, h \in Fields, g \in Fields,
     l \in Fields, t \in Trails}

CutBuffers == {SubSeq(b, 1, Min(n, Len(b))) : b \in FullBuffers, n \in 0..MaxCut}

Buffers == FullBuffers \cup CutBuffers

CodecInit ==
  /\ reqs = [r \in Reqs |-> IdleRequest]
  /\ exch = [r \in Reqs |-> <<>>]
  /\ buf \in Buffers
  /\ dec = NoDecode
  /\ target = NoTarget
  /\ packet = NoPacket
  /\ mocks = <<>>

Decode ==
  /\ dec = NoDecode
  /\ dec' = parseSampResponse(buf, TargetA.ip, TargetA.port)
  /\ UNCHANGED <<reqs, exch, buf, unitVars>>

CodecQuery == \E r \in Reqs : GetRequest(r, Str(IpA), Str(<<"7", "7", "7", "7">>))

CodecDeliver == \E r \in Reqs, k \in Exchanges : Message(r, k, buf)

CodecNext == Decode \/ CodecQuery \/ CodecDeliver

CodecSpec == CodecInit /\ [][CodecNext]_vars

(***************************************************************************)
(* createSampQueryPacket and generateRealisticMockData on their own, each  *)
(* applied to a target drawn from a bounded set: addresses of four parts   *)
(* taken from a pool of octet strings (in range, out of range, not a       *)
(* number), an address of three parts and no address, with ports inside    *)
(* and outside 1-65535.                                                    *)
(***************************************************************************)
Dotted(a, b, c, d) == a \o <<".">> \o b \o <<".">> \o c \o <<".">> \o d

PacketOctets == {<<"0">>, <<"7">>, <<"1", "0">>, <<"2", "5", "5">>,
                 <<"2", "5", "6">>, <<"a">>}
PacketPorts == {0, 1, 255, 256, 7777, 65535, 65536}
PacketTargets ==
  {[ip |-> ip, port |-> port] :
     ip \in {Str(Dotted(a, b, c, d)) : a \in PacketOctets, b \in PacketOctets,
                                       c \in PacketOctets, d \in PacketOctets}
            \cup {Str(IpShort), Undefined},
     port \in PacketPorts}

PacketInit ==
  /\ reqs = [r \in Reqs |-> IdleRequest]
  /\ exch = [r \in Reqs |-> <<>>]
  /\ buf = <<>>
  /\ dec = NoDecode
  /\ target \in PacketTargets
  /\ packet = NoPacket
  /\ mocks = <<>>

Encode ==
  /\ packet = NoPacket
  /\ packet' = createSampQueryPacket(target.ip, target.port)
  /\ UNCHANGED <<reqs, exch, codecVars, target, mocks>>

PacketNext == Encode

PacketSpec == PacketInit /\ [][PacketNext]_vars

MockOctets == {<<"0">>, <<"1", "0">>, <<"2", "5", "5">>, <<"a">>}
\* with the octets of MockOctets these ports reach every template
MockPorts == {1, 7777, 7778, 7779, 65535}
MockTargets ==
  {[ip |-> ip, port |-> port] :
     ip \in {Str(Dotted(a, b, c, d)) : a \in MockOctets, b \in MockOctets,
                                       c \in MockOctets, d \in MockOctets}
            \cup {Str(IpShort), Undefined},
     port \in MockPorts}

\* the random sources of the calls: every draw 0, every draw 0.5, every draw
\* 0.999, and draws alternating between 0.999 and 0
MockJitter ==
  RandomSources
  \cup {[k \in 1..MaxDraws |-> 500],
        [k \in 1..MaxDraws |-> IF k % 2 = 1 THEN 999 ELSE 0]}

\* the most calls of generateRealisticMockData made on one target
MaxCalls == 2

MockInit ==
  /\ reqs = [r \in Reqs |-> IdleRequest]
  /\ exch = [r \in Reqs |-> <<>>]
  /\ buf = <<>>
  /\ dec = NoDecode
  /\ target \in MockTargets
  /\ packet = NoPacket
  /\ mocks = <<>>

Synthesize(rnd) ==
  /\ Len(mocks) < MaxCalls
  /\ mocks' = Append(mocks, generateRealisticMockData(target.ip, target.port, rnd))
  /\ UNCHANGED <<reqs, exch, codecVars, target, packet>>

MockNext == \E rnd \in MockJitter : Synthesize(rnd)

MockSpec == MockInit /\ [][MockNext]_vars

(***************************************************************************)
(* Vocabulary of the properties.                                           *)
(***************************************************************************)
AllDigits(s) == s # <<>> /\ \A i \in 1..Len(s) : IsDigit(s[i])

\* a dotted quad: exactly four octets, each a decimal number in 0..255
ValidAddress(ip) ==
  /\ ip.def
  /\ LET parts == Split(ip.s)
     IN /\ Len(parts) = 4
        /\ \A i \in 1..4 : /\ AllDigits(parts[i])
                           /\ Len(parts[i]) <= 3
                           /\ DigitPrefix[parts[i], 0] <= 255

ValidPort(n) == n >= 1 /\ n <= 65535

\* a port given as a query-string parameter
ValidPortParam(p) ==
  /\ p.def
  /\ AllDigits(p.s)
  /\ Len(p.s) <= 5
  /\ ValidPort(DigitPrefix[p.s, 0])

ValidGet(q) == q.kind = "get" /\ ValidAddress(q.ip) /\ ValidPortParam(q.port)

ValidTarget(t) == ValidAddress(t.ip) /\ ValidPort(t.port)

\* data is a record generateRealisticMockData makes for (ip, port)
IsSynthesized(data, ip, port) ==
  /\ "playersList" \in DOMAIN data
  /\ \E rnd \in RandomSources :
       \E mock \in {generateRealisticMockData(ip, port, rnd)} :
         mock.ok /\ data = mock.record

\* data is the record parseSampResponse makes of message
IsDecoded(data, message, ip, port) ==
  /\ "playersList" \notin DOMAIN data
  /\ parseSampResponse(message, ip, port).ok
  /\ data = parseSampResponse(message, ip, port).record

HasEvent(e, ev) == \E i \in 1..Len(e.log) : e.log[i] = ev

(***************************************************************************)
(* C1.  A GET query on a valid target (dotted quad, port 1-65535) is       *)
(* answered exactly once, with status 200 and a server record tagged real  *)
(* or mock, whatever transport events occur: it is never left unanswered,  *)
(* never fails in the handler, never gets an error response.               *)
(***************************************************************************)
C1_Answered(q) ==
  /\ q.kind = "get"
  /\ q.pc = "done"
  /\ q.nres = 1
  /\ q.res.status = 200
  /\ q.res.success
  /\ q.res.source \in {"real", "mock"}
  /\ q.res.data.online

C1_NoFailureSurfaced ==
  \A r \in Reqs :
    ValidGet(reqs[r]) =>
      /\ reqs[r].pc \in {"await", "done"}
      /\ reqs[r].nres <= 1
      /\ reqs[r].pc = "done" => C1_Answered(reqs[r])

C1_QueryAlwaysResolves ==
  /\ []C1_NoFailureSurfaced
  /\ \A r \in Reqs :
       (ValidGet(reqs[r]) /\ reqs[r].pc = "await") ~> C1_Answered(reqs[r])

C1_Witness ==
  \E r \in Reqs :
    /\ ValidGet(reqs[r])
    /\ C1_Answered(reqs[r])
    /\ reqs[r].res.source = "mock"
    /\ exch[r][1].reason = "Timeout"

(***************************************************************************)
(* C2.  In every state where the promise of an exchange is settled, the    *)
(* socket the exchange created is closed.                                  *)
(***************************************************************************)
C2_SettledSocketClosed ==
  \A r \in Reqs : \A k \in 1..Len(exch[r]) :
    exch[r][k].promise # "pending" => exch[r][k].sock = "closed"

(***************************************************************************)
(* C3.  An exchange that sent its packet and sees no datagram, no socket   *)
(* error and no send error settles, and then it is rejected with Timeout;  *)
(* and in every state where Timeout was reported the socket is closed.     *)
(***************************************************************************)
Quiet(e) ==
  ~HasEvent(e, "message") /\ ~HasEvent(e, "error") /\ ~HasEvent(e, "senderror")

C3_TimeoutReportedClosed ==
  \A r \in Reqs : \A k \in 1..Len(exch[r]) :
    LET e == exch[r][k]
    IN /\ e.reason = "Timeout" => e.sock = "closed" /\ e.timer = "fired"
       /\ (e.sent > 0 /\ e.promise # "pending" /\ Quiet(e)) =>
            e.promise = "rejected" /\ e.reason = "Timeout"

C3_TimeoutReleasesSocket ==
  /\ []C3_TimeoutReportedClosed
  /\ \A r \in Reqs, k \in Exchanges :
       (k <= Len(exch[r]) /\ exch[r][k].sent > 0
          /\ exch[r][k].promise = "pending")
       ~> (k <= Len(exch[r]) /\ exch[r][k].promise # "pending")

C3_Witness ==
  \E r \in Reqs : \E k \in 1..Len(exch[r]) :
    /\ exch[r][k].log = <<"timeout">>
    /\ exch[r][k].sent = 1
    /\ exch[r][k].reason = "Timeout"
    /\ exch[r][k].sock = "closed"

(***************************************************************************)
(* C4.  A 200 response of GET /api/samp-server is tagged real exactly when *)
(* the first event of its exchange was a datagram that parseSampResponse   *)
(* decoded, and then carries the decoded record; otherwise (timeout, send  *)
(* error, socket error, decode failure) it is tagged mock and carries a    *)
(* synthesized record.                                                     *)
(***************************************************************************)
C4_SourceTagsOutcome ==
  \A r \in Reqs :
    LET q == reqs[r]
    IN (q.kind = "get" /\ q.pc = "done" /\ q.res.status = 200) =>
         LET e == exch[r][1]
             decoded == /\ e.log # <<>>
                        /\ e.log[1] = "message"
                        /\ parseSampResponse(e.msg, q.ip, q.portNum).ok
         IN /\ q.res.source \in {"real", "mock"}
            /\ (q.res.source = "real") <=> decoded
            /\ q.res.source = "real" =>
                 IsDecoded(q.res.data, e.msg, q.ip, q.portNum)
            /\ q.res.source = "mock" =>
                 /\ e.promise = "rejected"
                 /\ IsSynthesized(q.res.data, q.ip, q.portNum)

C4_Witness ==
  \E r \in Reqs :
    /\ reqs[r].kind = "get"
    /\ reqs[r].pc = "done"
    /\ reqs[r].res.status = 200
    /\ reqs[r].res.source = "real"
    /\ exch[r][1].msg = MsgGood

(***************************************************************************)
(* C5.  The results of a batch follow its input: at every moment the j-th  *)
(* result pushed is the result of the j-th exchange, made for the j-th     *)
(* target, and the response of a batch carries as many results as the      *)
(* batch has targets, at most 5.                                           *)
(***************************************************************************)
ResultOf(item, e, server) ==
  /\ item.query = server
  /\ e.ip = server.ip
  /\ e.port = server.port
  /\ e.promise # "pending"
  /\ IF e.promise = "resolved"
       THEN item.data = e.value
       ELSE IsSynthesized(item.data, server.ip, server.port)

C5_BatchOrderPreserved ==
  \A r \in Reqs :
    LET q == reqs[r]
    IN q.kind = "post" =>
         /\ Len(q.results) <= Len(q.servers)
         /\ \A j \in 1..Len(q.results) :
              ResultOf(q.results[j], exch[r][j], q.servers[j])
         /\ (q.pc = "done" /\ q.res.status = 200) =>
              /\ q.res.results = q.results
              /\ Len(q.res.results) = Len(q.servers)
              /\ q.res.total = Len(q.servers)
              /\ Len(q.servers) <= MaxServers

C5_Witness ==
  \E r \in Reqs :
    /\ reqs[r].kind = "post"
    /\ reqs[r].pc = "done"
    /\ reqs[r].res.status = 200
    /\ reqs[r].servers = <<TargetA, TargetB>>
    /\ exch[r][1].promise = "rejected"
    /\ exch[r][2].promise = "resolved"

(***************************************************************************)
(* C6.  Each item of a batch is decided by its own exchange alone: an item *)
(* whose exchange succeeded carries the decoded record and source = real,  *)
(* an item whose exchange failed a synthesized record and source = mock.   *)
(***************************************************************************)
C6_ItemsTaggedByOwnOutcome ==
  \A r \in Reqs :
    LET q == reqs[r]
    IN q.kind = "post" =>
         \A j \in 1..Len(q.results) :
           IF exch[r][j].promise = "resolved"
             THEN /\ q.results[j].data = exch[r][j].value
                  /\ q.results[j].metaSource = "real"
             ELSE /\ IsSynthesized(q.results[j].data, q.servers[j].ip,
                                   q.servers[j].port)
                  /\ q.results[j].metaSource = "mock"

(***************************************************************************)
(* C7.  An invocation of the query client makes one exchange attempt: a    *)
(* GET request starts at most one exchange and a batch one per target      *)
(* reached, an exchange sends at most one packet, and once its promise is  *)
(* settled it sends nothing more.                                          *)
(***************************************************************************)
C7_OneSendPerExchange ==
  \A r \in Reqs :
    /\ reqs[r].kind = "get" => Len(exch[r]) <= 1
    /\ reqs[r].kind = "post" => Len(exch[r]) = reqs[r].i
    /\ \A k \in 1..Len(exch[r]) : exch[r][k].sent <= 1

C7_NoResend ==
  \A r \in Reqs : \A k \in 1..Len(exch[r]) :
    exch[r][k].promise # "pending" => exch'[r][k].sent = exch[r][k].sent

C7_ExactlyOneAttempt == []C7_OneSendPerExchange /\ [][C7_NoResend]_vars

C7_Witness ==
  \E r \in Reqs : \E k \in 1..Len(exch[r]) :
    /\ exch[r][k].sent = 1
    /\ exch[r][k].promise = "rejected"
    /\ exch[r][k].reason = "SendFailed"
    /\ reqs[r].pc = "done"

(***************************************************************************)
(* C8.  A target whose address is not a dotted quad of octets 0-255 or     *)
(* whose port is outside 1-65535 is rejected before any I/O: no exchange   *)
(* (socket) is ever created for it, a GET request for it is answered with  *)
(* an error, and a batch holds no result for it.                           *)
(***************************************************************************)
C8_InvalidTargetRejected ==
  \A r \in Reqs :
    LET q == reqs[r]
    IN /\ \A k \in 1..Len(exch[r]) :
            ValidAddress(exch[r][k].ip) /\ ValidPort(exch[r][k].port)
       /\ (q.kind = "get" /\ q.pc = "done" /\ ~ValidGet(q)) => q.res.status = 400
       /\ q.kind = "post" =>
            \A j \in 1..Len(q.results) : ValidTarget(q.servers[j])

(***************************************************************************)
(* C9.  parseSampResponse fails on every buffer in which the hostname, the *)
(* gamemode or the language length prefix exceeds the number of bytes that *)
(* follow the prefix.                                                      *)
(***************************************************************************)
PrefixFits(b, off) ==
  CanRead(b, off, 4) /\ readUInt32LE(b, off) <= Len(b) - (off + 4)

PrefixOverruns(b, off) ==
  CanRead(b, off, 4) /\ readUInt32LE(b, off) > Len(b) - (off + 4)

GamemodeOffset(b) == 13 + readUInt32LE(b, 9)
LanguageOffset(b) == GamemodeOffset(b) + 4 + readUInt32LE(b, GamemodeOffset(b))

SomePrefixOverruns(b) ==
  \/ PrefixOverruns(b, 9)
  \/ PrefixFits(b, 9) /\ PrefixOverruns(b, GamemodeOffset(b))
  \/ /\ PrefixFits(b, 9)
     /\ PrefixFits(b, GamemodeOffset(b))
     /\ PrefixOverruns(b, LanguageOffset(b))

Decoded == dec.err # "NotCalled"

C9_OverrunIsMalformed ==
  (Decoded /\ SomePrefixOverruns(buf)) => ~dec.ok

(***************************************************************************)
(* C10.  parseSampResponse fails with the too-short error on every buffer  *)
(* of fewer than 11 bytes, having read nothing from it, and an exchange    *)
(* that receives such a buffer is rejected with a parse failure: the       *)
(* exception does not leave the message handler.                           *)
(***************************************************************************)
C10_ShortResponseIsFailure ==
  /\ (Decoded /\ Len(buf) < 11) => dec = ParseFail("TooShort", 0)
  /\ \A r \in Reqs : \A k \in 1..Len(exch[r]) :
       (HasEvent(exch[r][k], "message") /\ Len(exch[r][k].msg) < 11) =>
         /\ exch[r][k].promise = "rejected"
         /\ exch[r][k].reason = "ParseFailed"
         /\ ~exch[r][k].uncaught

C10_Witness ==
  /\ Decoded
  /\ Len(buf) = 10
  /\ dec.err = "TooShort"
  /\ \E r \in Reqs : \E k \in 1..Len(exch[r]) :
       /\ exch[r][k].msg = buf
       /\ exch[r][k].reason = "ParseFailed"

(***************************************************************************)
(* C11.  Codec round trip: parseSampResponse applied to the encoding of    *)
(* (password, players, maxPlayers, hostname, gamemode, language), each     *)
(* string preceded by its own length, succeeds and returns password,       *)
(* players and maxPlayers as encoded and each string stripped of the       *)
(* white space around it.                                                  *)
(***************************************************************************)
\* s without its leading and trailing white space
Stripped(s) ==
  LET keep == {i \in 1..Len(s) : s[i] \notin WhiteBytes}
  IN IF keep = {} THEN <<>>
     ELSE SubSeq(s, CHOOSE i \in keep : \A j \in keep : i <= j,
                    CHOOSE i \in keep : \A j \in keep : i >= j)

\* the reference encoder: every length prefix is the length of its string
Encoded(pw, players, maxPlayers, h, g, l) ==
  InfoResponse(pw, players, maxPlayers, Len(h), h, Len(g), g, Len(l), l)

C11_RoundTrip ==
  Decoded =>
    \A pw \in {0, 1}, players \in {42, 300}, h \in StrPool, g \in StrPool,
       l \in StrPool :
      buf = Encoded(pw, players, 100, h, g, l) =>
        /\ dec.ok
        /\ dec.record.password = (pw = 1)
        /\ dec.record.players = players
        /\ dec.record.maxPlayers = 100
        /\ dec.record.hostname = Stripped(h)
        /\ dec.record.gamemode = Stripped(g)
        /\ dec.record.language = Stripped(l)

C11_Witness ==
  /\ Decoded
  /\ buf = Encoded(1, 300, 100, <<32, 65, 32>>, <<65>>, <<>>)
  /\ dec.ok
  /\ dec.record.hostname = <<65>>
  /\ dec.record.players = 300

(***************************************************************************)
(* C17.  Trailing bytes are ignored: a buffer made of an encoded response  *)
(* followed by extra bytes decodes, without error, to the record the       *)
(* encoded response alone decodes to.                                      *)
(***************************************************************************)
C17_TrailingBytesIgnored ==
  Decoded =>
    \A pw \in {0, 1}, players \in {42, 300}, h \in StrPool, g \in StrPool,
       l \in StrPool, t \in Trails :
      buf = Encoded(pw, players, 100, h, g, l) \o t =>
        /\ dec.ok
        /\ dec = parseSampResponse(Encoded(pw, players, 100, h, g, l),
                                   TargetA.ip, TargetA.port)
        /\ dec.record.language = Stripped(l)

C17_Witness ==
  /\ Decoded
  /\ buf = Encoded(0, 42, 100, <<65>>, <<65>>, <<32, 65, 32>>) \o <<71>>
  /\ dec.ok
  /\ dec.record.language = <<65>>

(***************************************************************************)
(* C12.  For a valid target createSampQueryPacket returns a packet of      *)
(* exactly 11 bytes: 'SAMP', the four octets of the address in order, the  *)
(* port low byte first, and 0x69.                                          *)
(***************************************************************************)
\* the value of the i-th octet of a valid address
OctetOf(ip, i) == DigitPrefix[Split(ip.s)[i], 0]

Encoded12 == packet # NoPacket

C12_QueryPacketLayout ==
  (Encoded12 /\ ValidTarget(target)) =>
    /\ packet.ok
    /\ Len(packet.packet) = 11
    /\ SubSeq(packet.packet, 1, 4) = <<83, 65, 77, 80>>
    /\ \A i \in 1..4 : packet.packet[4 + i] = OctetOf(target.ip, i)
    /\ packet.packet[9] = target.port % 256
    /\ packet.packet[10] = target.port \div 256
    /\ packet.packet[11] = 105

C12_Witness ==
  /\ Encoded12
  /\ target = [ip |-> Str(Dotted(<<"1", "0">>, <<"0">>, <<"7">>, <<"2", "5", "5">>)),
               port |-> 7777]
  /\ packet.packet = <<83, 65, 77, 80, 10, 0, 7, 255, 97, 30, 105>>

(***************************************************************************)
(* C13.  Mock determinism: the calls of generateRealisticMockData on one   *)
(* target agree on hostname, gamemode, language, description and tags,     *)
(* whatever their random draws, and for a valid target these are the ones  *)
(* of the template of index (sum of the octets + port) mod the number of   *)
(* templates.                                                              *)
(***************************************************************************)
TemplateKey(t) ==
  OctetOf(t.ip, 1) + OctetOf(t.ip, 2) + OctetOf(t.ip, 3) + OctetOf(t.ip, 4) + t.port

FromTemplate(data, tpl) ==
  /\ data.hostname = tpl.name
  /\ data.gamemode = tpl.gamemode
  /\ data.language = tpl.language
  /\ data.description = tpl.description
  /\ data.tags = tpl.tags

C13_MockDeterministic ==
  /\ \A i \in 1..Len(mocks), j \in 1..Len(mocks) :
       /\ mocks[i].ok = mocks[j].ok
       /\ mocks[i].ok =>
            \E tpl \in {serverTemplates[n] : n \in 1..Len(serverTemplates)} :
              FromTemplate(mocks[i].record, tpl) /\ FromTemplate(mocks[j].record, tpl)
  /\ ValidTarget(target) =>
       \A i \in 1..Len(mocks) :
         /\ mocks[i].ok
         /\ FromTemplate(mocks[i].record,
                         serverTemplates[(TemplateKey(target) % Len(serverTemplates)) + 1])

C13_Witness ==
  /\ ValidTarget(target)
  /\ Len(mocks) = 2
  /\ mocks[1].record.players # mocks[2].record.players
  /\ mocks[1].record.hostname = mocks[2].record.hostname
  /\ TemplateKey(target) % Len(serverTemplates) = 3

(***************************************************************************)
(* C14.  Mock bounds: for a valid target every call returns a record with  *)
(* 10 <= players <= 1000 and a player list of min(players, 25) elements    *)
(* whose ids are 1, 2, ... in order.                                       *)
(***************************************************************************)
C14_MockBounds ==
  ValidTarget(target) =>
    \A i \in 1..Len(mocks) :
      /\ mocks[i].ok
      /\ mocks[i].record.players >= 10
      /\ mocks[i].record.players <= 1000
      /\ Len(mocks[i].record.playersList) = Min(mocks[i].record.players, 25)
      /\ \A n \in 1..Len(mocks[i].record.playersList) :
           mocks[i].record.playersList[n].id = n

C14_Witness ==
  /\ ValidTarget(target)
  /\ Len(mocks) >= 1
  /\ mocks[1].ok
  /\ mocks[1].record.players = 70
  /\ Len(mocks[1].record.playersList) = 25
  /\ mocks[1].record.playersList[25].id = 25

(***************************************************************************)
(* C15.  The outcome of an exchange that sent its packet is fixed by the   *)
(* first of its events: a datagram first resolves it with the decoded      *)
(* record or rejects it with the parse failure, and no Timeout is reported *)
(* afterwards; the timeout first rejects it with Timeout, and no datagram  *)
(* is handled afterwards; a socket error or a send error first rejects it  *)
(* with that error.  Once an exchange is settled, no event changes its     *)
(* outcome.                                                                *)
(***************************************************************************)
OutcomeOf(e, ev) ==
  CASE ev = "message" ->
         LET serverInfo == parseSampResponse(e.msg, e.ip, e.port)
         IN IF serverInfo.ok
              THEN e.promise = "resolved" /\ e.value = serverInfo.record
              ELSE e.promise = "rejected" /\ e.reason = "ParseFailed"
    [] ev = "timeout" -> e.promise = "rejected" /\ e.reason = "Timeout"
    [] ev = "error" -> e.promise = "rejected" /\ e.reason = "NetworkError"
    [] ev = "senderror" -> e.promise = "rejected" /\ e.reason = "SendFailed"

C15_FirstEventDecides ==
  \A r \in Reqs : \A k \in 1..Len(exch[r]) :
    LET e == exch[r][k]
    IN e.sent > 0 =>
         /\ e.log = <<>> => e.promise = "pending"
         /\ e.log # <<>> =>
              /\ OutcomeOf(e, e.log[1])
              /\ \A n \in 2..Len(e.log) : e.log[n] \notin {"message", "timeout"}

C15_OutcomeStable ==
  \A r \in Reqs : \A k \in 1..Len(exch[r]) :
    exch[r][k].promise # "pending" =>
      /\ exch'[r][k].promise = exch[r][k].promise
      /\ exch'[r][k].reason = exch[r][k].reason
      /\ exch'[r][k].value = exch[r][k].value

C15_FirstEventFixesOutcome == []C15_FirstEventDecides /\ [][C15_OutcomeStable]_vars

C15_Witness ==
  \E r \in Reqs : \E k \in 1..Len(exch[r]) :
    /\ exch[r][k].log = <<"message", "senderror">>
    /\ exch[r][k].msg = MsgGood
    /\ exch[r][k].promise = "resolved"

(***************************************************************************)
(* C16.  Concurrent queries are isolated: in every step that changes an    *)
(* exchange, the exchange moves by one of its own callbacks applied to its *)
(* own socket, timer and promise, every other exchange of every request    *)
(* is left as it was, and no other request is touched.                     *)
(***************************************************************************)
\* what the callbacks of an exchange can make of it
OwnEvents(e) ==
  {timeoutCallback(e), onError(e)}
  \cup {onMessage(e, message) : message \in CoreDatagrams}
  \cup {sendCallback(e, error) : error \in BOOLEAN}

C16_StepIsolated ==
  \A r \in ConcReqs : \A k \in 1..Len(exch[r]) :
    exch'[r][k] # exch[r][k] =>
      /\ exch'[r][k] \in OwnEvents(exch[r][k])
      /\ \A r2 \in ConcReqs : \A k2 \in 1..Len(exch[r2]) :
           <<r2, k2>> # <<r, k>> => exch'[r2][k2] = exch[r2][k2]
      /\ \A r2 \in ConcReqs : r2 # r => reqs'[r2] = reqs[r2]

C18_ClosedAtMostOnce ==
  \A r \in Reqs : \A k \in 1..Len(exch[r]) :
    exch[r][k].closes <= 1 /\ ~exch[r][k].uncaught

(***************************************************************************)
(* C19.  Every outcome other than Timeout cancels the timer: a settled     *)
(* exchange whose outcome is not Timeout has no pending timer, and the     *)
(* timeout callback has run only on exchanges whose outcome is Timeout.    *)
(***************************************************************************)
C19_TimerCancelledOnSettle ==
  \A r \in Reqs : \A k \in 1..Len(exch[r]) :
    LET e == exch[r][k]
    IN (e.promise # "pending" /\ e.reason # "Timeout") =>
         e.timer # "pending" /\ ~HasEvent(e, "timeout")

(***************************************************************************)
(* C20.  A batch is processed sequentially: the exchange of target i+1 is  *)
(* started only when the result of target i has been pushed, and at most   *)
(* one socket of the batch is open at any time.                            *)
(***************************************************************************)
OpenSockets(r) == {k \in 1..Len(exch[r]) : exch[r][k].sock = "open"}

C20_StartsInTurn ==
  \A r \in Reqs :
    reqs[r].kind = "post" =>
      /\ Len(exch[r]) <= Len(reqs[r].results) + 1
      /\ \A k \in 1..(Len(exch[r]) - 1) : exch[r][k].promise # "pending"

C20_BatchSequential ==
  /\ C20_StartsInTurn
  /\ \A r \in Reqs :
       reqs[r].kind = "post" => Cardinality(OpenSockets(r)) <= 1

=============================================================================
